---- MODULE Spec2Model ----
(***************************************************************************)
(* EasyPlayer: the reference-counted Effect / EffectHandler engine of      *)
(* easyplayer/effect.py and the move-type resolver of easyplayer/player.py.*)
(*                                                                         *)
(* Python runs every operation to completion on one thread, so each call   *)
(* (descriptor access, handler(), handler.cancel(), a Delay firing) is one *)
(* action.  Inside an action the statements of the method run in order on  *)
(* a record s of the mutable program state; a callback (on_f, off_f) sees  *)
(* the record as it is at the moment of the call.                          *)
(*                                                                         *)
(* Specifications:                                                         *)
(*   Spec        activate, cancel and timer expiry on EasyPlayer's effects *)
(*   SpecRebind  Spec's calls on burn, with Effect.on / Effect.off         *)
(*   SpecTimer   Spec's calls under a scheduler that runs every Delay      *)
(*   SpecRaise   Spec's calls with target functions that may raise         *)
(*   SpecMove    movement effects held by several handlers                 *)
(*   SpecDeath   Spec's calls with EasyPlayer.cancel_all_effects           *)
(*   SpecTargets Spec's calls on several target objects                    *)
(*   SpecQuery   Spec's calls on burn, with is_active_for / is_active      *)
(*   SpecEvents  the EventManager of easyplayer/events.py                  *)
(*   SpecShift   EasyPlayer.shift_property and its Delays                  *)
(***************************************************************************)
EXTENDS Integers, Sequences, FiniteSets, TLC

\* ---------------------------------------------------------------- bounds
MaxHandlers == 2
MaxActivations == 2
MaxRebinds == 1
MaxListeners == 2
MaxConversions == 1
MaxShifts == 2

\* ------------------------------------------------------------- constants
None == -1           \* Python's None, for a duration and for _delay

Effects == {"noclip", "freeze", "fly", "burn"}
MovementEffects == {"noclip", "freeze", "fly"}

\* Two objects of the first player (EasyPlayer and a subclass instance
\* share the userid) and one object of a second player.
Targets == {"p1", "p1b", "p2"}

userid(t) == IF t = "p2" THEN 2 ELSE 1

Keys == {userid(t) : t \in Targets}

\* (mutant) the key is the target object itself: every object its own key
identify_target_object(t) == IF t = "p1b" THEN 3 ELSE userid(t)

\* PlayerEffect.identify_target
identify_target(t) == userid(t)

Durations == {None, 0, 2}

\* the player objects a run applies effects to
Players == {"p1"}

MoveTypes == {"WALK", "NOCLIP", "NONE", "FLY"}

IGNITE_ON == 3600
IGNITE_OFF == 0

VARIABLES
    effects,             \* the Effect objects: id -> [on_f, off_f, dict]
    handlers,            \* the EffectHandler objects: <<[effect, target]>>
    _delay,              \* EffectHandler._delay: a Delay (id) or None
    _effect_handlers,    \* the defaultdict objects: id -> dict key -> list
    delays,              \* the Delay objects alive: id -> [handler, state]
    move_type,           \* the player's move_type, per userid
    ignite,              \* the player's ignite lifetime, per userid
    raising,             \* whether the target functions raise when called
    last_call,           \* history: per Effect and key, the callback called last
    nact,                \* history: per handler, its handler() calls
    nrev,                \* history: per handler, its cancel() calls that revoked
    nexp,                \* history: per handler, its timers that revoked
    _events,             \* EventManager._events: event name -> Event
    game_event_conversions,  \* EventManager.game_event_conversions
    registered,          \* the game events _on_game_event is registered for
    calls,               \* the listener calls the last operation made
    listening,           \* history: the listeners on() added, per event
    props,               \* the player's properties shift_property works on
    shift_delays,        \* the Delay objects of shift_property
    permanent,           \* history: per property, the shifts made to stay
    nshift               \* history: the shift_property calls of the plugin

\* the variables of the effects and of the event manager
pvars == <<effects, handlers, _delay, _effect_handlers, delays, move_type, ignite,
           raising, last_call, nact, nrev, nexp>>

evars == <<_events, game_event_conversions, registered, calls, listening>>

svars == <<props, shift_delays, permanent, nshift>>

vars == <<pvars, evars, svars>>

\* ------------------------------------------------------------- helpers
Range(q) == {q[i] : i \in 1..Len(q)}

\* (mutant) every occurrence of x is dropped, as a filter would
RemoveAll(q, x) == SelectSeq(q, LAMBDA y : y # x)

RECURSIVE RemoveFirst(_, _)
\* list.remove(x): drops the first occurrence of x
RemoveFirst(q, x) ==
    IF q = <<>> THEN <<>>
    ELSE IF Head(q) = x THEN Tail(q)
    ELSE <<Head(q)>> \o RemoveFirst(Tail(q), x)

\* collections.defaultdict(list): d[k] inserts an empty list for a new key
DefaultGet(d, k) == IF k \in DOMAIN d THEN d ELSE d @@ (k :> <<>>)

\* the list stored under k, empty when the key was never touched
Lookup(d, k) == IF k \in DOMAIN d THEN d[k] ELSE <<>>

RECURSIVE SumSeq(_)
SumSeq(q) == IF q = <<>> THEN 0 ELSE Head(q) + SumSeq(Tail(q))

\* The mutable program state an operation works on; cb collects the calls
\* of on_f and off_f the operation makes and obs what is_active_for(target)
\* is at the moment of each, exc is the exception that ends it, fail tells
\* whether a target function raises when it is called.
Cur ==
    [ef |-> effects, hs |-> handlers, eh |-> _effect_handlers, hd |-> _delay, dl |-> delays,
     mt |-> move_type, ig |-> ignite, cb |-> <<>>, obs |-> <<>>, exc |-> "none",
     fail |-> raising]

EffectOf(s, h) == s.hs[h].effect
TargetOf(s, h) == s.hs[h].target
KeyOf(s, h) == identify_target(TargetOf(s, h))

\* self._effect_handlers of Effect e: the dict object the attribute names
DictOf(s, e) == s.ef[e].dict

\* ------------------------------------------------- player.py: callbacks
\* self._effects[type(self).X]: the handlers of effect X held on the player
PlayerEffects(s, e, t) == Lookup(s.eh[DictOf(s, e)], identify_target(t))

_update_move_type(s, t) ==
    LET k == identify_target(t)
    IN  IF PlayerEffects(s, "noclip", t) # <<>>
            THEN [s EXCEPT !.mt[k] = "NOCLIP"]
        ELSE IF PlayerEffects(s, "freeze", t) # <<>>
            THEN [s EXCEPT !.mt[k] = "NONE"]
        ELSE IF PlayerEffects(s, "fly", t) # <<>>
            THEN [s EXCEPT !.mt[k] = "FLY"]
        ELSE [s EXCEPT !.mt[k] = "WALK"]

burn_on(s, t) == [s EXCEPT !.ig[identify_target(t)] = IGNITE_ON]

burn_off(s, t) == [s EXCEPT !.ig[identify_target(t)] = IGNITE_OFF]

\* the functions EasyPlayer gives its effects as on_f and off_f
TargetFunctions == {"_update_move_type", "burn_on", "burn_off"}

\* f(target): the function raises, or returns after doing its work
Call(f, s, t) ==
    IF s.fail THEN [s EXCEPT !.exc = "Raised"]
    ELSE
    CASE f = "_update_move_type" -> _update_move_type(s, t)
      [] f = "burn_on" -> burn_on(s, t)
      [] f = "burn_off" -> burn_off(s, t)

\* the on_f and off_f EasyPlayer declares effect e with
Declared(e) ==
    IF e \in MovementEffects
        THEN [on_f |-> "_update_move_type", off_f |-> "_update_move_type"]
    ELSE [on_f |-> "burn_on", off_f |-> "burn_off"]

\* self.on_f(handler.target) of Effect e
on_f(s, e, t) ==
    Call(s.ef[e].on_f,
         [s EXCEPT !.cb = Append(@, <<"on", e, t>>),
                   !.obs = Append(@, Lookup(s.eh[DictOf(s, e)], identify_target(t)) # <<>>)], t)

\* self.off_f(handler.target) of Effect e
off_f(s, e, t) ==
    Call(s.ef[e].off_f,
         [s EXCEPT !.cb = Append(@, <<"off", e, t>>),
                   !.obs = Append(@, Lookup(s.eh[DictOf(s, e)], identify_target(t)) # <<>>)], t)

\* ------------------------------------------------------ effect.py: Effect
\* (mutant) on_f is called on every apply, not only the first
_apply_always_on(s, h) ==
    LET e == EffectOf(s, h)
        key == KeyOf(s, h)
        dct == DictOf(s, e)
        s1 == [s EXCEPT !.eh[dct] = DefaultGet(@, key)]
        s2 == on_f(s1, e, TargetOf(s, h))
    IN  [s2 EXCEPT !.eh[dct][key] = Append(@, h)]

\* (mutant) one list for all targets: the handler is recorded under every
\* key
_apply_shared(s, h) ==
    LET e == EffectOf(s, h)
        key == KeyOf(s, h)
        dct == DictOf(s, e)
        s1 == [s EXCEPT !.eh[dct] = DefaultGet(@, key)]
        s2 == IF Len(s1.eh[dct][key]) = 0 THEN on_f(s1, e, TargetOf(s, h)) ELSE s1
    IN  IF s2.exc # "none" THEN s2
        ELSE [s2 EXCEPT !.eh[dct] = [k \in DOMAIN @ |-> Append(@[k], h)]]

\* (mutant) a set of handlers: one that is already applied is not recorded
\* a second time
_apply_once(s, h) ==
    LET e == EffectOf(s, h)
        key == KeyOf(s, h)
        dct == DictOf(s, e)
        s1 == [s EXCEPT !.eh[dct] = DefaultGet(@, key)]
        s2 == IF Len(s1.eh[dct][key]) = 0 THEN on_f(s1, e, TargetOf(s, h)) ELSE s1
    IN  IF s2.exc # "none" \/ h \in Range(s2.eh[dct][key]) THEN s2
        ELSE [s2 EXCEPT !.eh[dct][key] = Append(@, h)]

_apply(s, h) ==
    LET e == EffectOf(s, h)
        key == KeyOf(s, h)
        dct == DictOf(s, e)
        s1 == [s EXCEPT !.eh[dct] = DefaultGet(@, key)]
        s2 == IF Len(s1.eh[dct][key]) = 0 THEN on_f(s1, e, TargetOf(s, h)) ELSE s1
    IN  IF s2.exc # "none" THEN s2
        ELSE [s2 EXCEPT !.eh[dct][key] = Append(@, h)]

\* (mutant) off_f is called on every cancel, not only the last
_cancel_always_off(s, h) ==
    LET e == EffectOf(s, h)
        key == KeyOf(s, h)
        dct == DictOf(s, e)
        s1 == [s EXCEPT !.eh[dct] = DefaultGet(@, key)]
    IN  IF h \notin Range(s1.eh[dct][key])
            THEN [s1 EXCEPT !.exc = "ValueError"]
        ELSE off_f([s1 EXCEPT !.eh[dct][key] = RemoveFirst(@, h)], e, TargetOf(s, h))

\* (mutant) off_f is called before the handler is removed
_cancel_off_first(s, h) ==
    LET e == EffectOf(s, h)
        key == KeyOf(s, h)
        dct == DictOf(s, e)
        s1 == [s EXCEPT !.eh[dct] = DefaultGet(@, key)]
    IN  IF h \notin Range(s1.eh[dct][key])
            THEN [s1 EXCEPT !.exc = "ValueError"]
        ELSE LET s2 == IF Len(s1.eh[dct][key]) = 1
                           THEN off_f(s1, e, TargetOf(s, h))
                       ELSE s1
             IN  [s2 EXCEPT !.eh[dct][key] = RemoveFirst(@, h)]

\* (mutant) a plain counter: the newest lease is dropped, whoever holds it
_cancel_pop(s, h) ==
    LET e == EffectOf(s, h)
        key == KeyOf(s, h)
        dct == DictOf(s, e)
        s1 == [s EXCEPT !.eh[dct] = DefaultGet(@, key)]
    IN  IF Len(s1.eh[dct][key]) = 0
            THEN [s1 EXCEPT !.exc = "ValueError"]
        ELSE LET s2 == [s1 EXCEPT !.eh[dct][key] = SubSeq(@, 1, Len(@) - 1)]
             IN  IF Len(s2.eh[dct][key]) = 0
                     THEN off_f(s2, e, TargetOf(s, h))
                 ELSE s2

\* (mutant) a handler that is not applied is skipped without an error
_cancel_silent(s, h) ==
    LET e == EffectOf(s, h)
        key == KeyOf(s, h)
        dct == DictOf(s, e)
        s1 == [s EXCEPT !.eh[dct] = DefaultGet(@, key)]
    IN  IF h \notin Range(s1.eh[dct][key]) THEN s1
        ELSE LET s2 == [s1 EXCEPT !.eh[dct][key] = RemoveFirst(@, h)]
             IN  IF Len(s2.eh[dct][key]) = 0
                     THEN off_f(s2, e, TargetOf(s, h))
                 ELSE s2

_cancel(s, h) ==
    LET e == EffectOf(s, h)
        key == KeyOf(s, h)
        dct == DictOf(s, e)
        s1 == [s EXCEPT !.eh[dct] = DefaultGet(@, key)]
    IN  IF h \notin Range(s1.eh[dct][key])
            THEN [s1 EXCEPT !.exc = "ValueError"]
        ELSE LET s2 == [s1 EXCEPT !.eh[dct][key] = RemoveFirst(@, h)]
             IN  IF Len(s2.eh[dct][key]) = 0
                     THEN off_f(s2, e, TargetOf(s, h))
                 ELSE s2

\* the ids of the Effect objects on() and off() create
NewEffects == {"new1", "new2", "new3"}

NewEffect(ef) == CHOOSE n \in NewEffects : n \notin DOMAIN ef

\* type(self)(on_f, off_f): Effect.__init__ gives the new object the two
\* functions and a defaultdict of its own
Effect(s, f_on, f_off) ==
    LET n == NewEffect(s.ef)
    IN  [s EXCEPT !.ef = @ @@ (n :> [on_f |-> f_on, off_f |-> f_off, dict |-> n]),
                  !.eh = @ @@ (n :> <<>>)]

\* (mutant) a shallow copy of self with on_f replaced: the copy's
\* _effect_handlers is the dict of the original
on_copy(s, e, f) ==
    [s EXCEPT !.ef = @ @@ (NewEffect(s.ef) :>
                              [on_f |-> f, off_f |-> s.ef[e].off_f,
                               dict |-> s.ef[e].dict])]

\* Effect.on(on_f)
on(s, e, f) == Effect(s, f, s.ef[e].off_f)

\* Effect.off(off_f)
off(s, e, f) == Effect(s, s.ef[e].on_f, f)

\* Effect.is_active_for(target): the value it returns
is_active_for(s, e, t) == Len(Lookup(s.eh[DictOf(s, e)], identify_target(t))) > 0

\* Effect.is_active_for(target): the state it leaves; the lookup
\* self._effect_handlers[key] is one in a defaultdict
is_active_for_lookup(s, e, t) ==
    [s EXCEPT !.eh[DictOf(s, e)] = DefaultGet(@, identify_target(t))]

\* Effect.__get__(target): a new EffectHandler(self, target), _delay None
__get__(s, e, t) ==
    [s EXCEPT !.hs = Append(@, [effect |-> e, target |-> t]),
              !.hd = Append(@, None)]

\* ----------------------------------------------- listeners.tick.Delay
\* the id of a new Delay object: the first one not in use
NewId(dl) == CHOOSE i \in 1..(Cardinality(DOMAIN dl) + 1) : i \notin DOMAIN dl

\* Delay(duration, effect._cancel, (handler,)): a new pending Delay
Delay(s, h) ==
    [s EXCEPT !.dl = @ @@ (NewId(s.dl) :> [handler |-> h, state |-> "pending"])]

\* Delay.cancel(): a pending Delay is taken off the scheduler; for one that
\* is no longer scheduled the library does nothing or raises (raises =
\* TRUE), depending on its version.
Delay_cancel(s, d, raises) ==
    IF s.dl[d].state = "pending" THEN [s EXCEPT !.dl[d].state = "cancelled"]
    ELSE IF raises THEN [s EXCEPT !.exc = "ValueError"]
    ELSE s

\* (mutant) the Delay was given the callback without the handler as its
\* argument: the call fails and nothing is revoked
Delay_fire_no_args(s, d) ==
    [s EXCEPT !.dl[d].state = "fired", !.exc = "TypeError"]

\* The scheduler runs a pending Delay: it is no longer scheduled and its
\* callback, effect._cancel, is called with the handler.
Delay_fire(s, d) == _cancel([s EXCEPT !.dl[d].state = "fired"], s.dl[d].handler)

\* A Delay that is neither scheduled nor referenced by a handler is
\* unreachable; Python frees it.
Collect(s) ==
    LET live == {d \in DOMAIN s.dl :
                    \/ s.dl[d].state = "pending"
                    \/ \E h \in 1..Len(s.hd) : s.hd[h] = d}
    IN  [s EXCEPT !.dl = [d \in live |-> s.dl[d]]]

\* ----------------------------------------------- effect.py: EffectHandler
__call__(s, h, duration) ==
    LET s1 == _apply(s, h)
    IN  IF s1.exc # "none" THEN s1
        ELSE IF duration # None
            THEN LET d == NewId(s1.dl)
                 IN  [Delay(s1, h) EXCEPT !.hd[h] = d]
        ELSE s1

\* (mutant) the reference is dropped but the Delay stays scheduled
cancel_keep_delay(s, h, raises) == _cancel([s EXCEPT !.hd[h] = None], h)

\* (mutant) the reference is cleared last, after effect._cancel returned
cancel_clear_last(s, h, raises) ==
    LET s1 == IF s.hd[h] # None THEN Delay_cancel(s, s.hd[h], raises) ELSE s
        s2 == IF s1.exc # "none" THEN s1 ELSE _cancel(s1, h)
    IN  IF s2.exc # "none" THEN s2 ELSE [s2 EXCEPT !.hd[h] = None]

cancel(s, h, raises) ==
    LET s1 == IF s.hd[h] # None
                  THEN LET c == Delay_cancel(s, s.hd[h], raises)
                       IN  IF c.exc # "none" THEN c
                           ELSE [c EXCEPT !.hd[h] = None]
              ELSE s
    IN  IF s1.exc # "none" THEN s1 ELSE _cancel(s1, h)

\* (mutant) the handler's own contribution: whether it is applied itself
is_active_own(s, h) ==
    h \in Range(Lookup(s.eh[DictOf(s, EffectOf(s, h))], KeyOf(s, h)))

\* EffectHandler.is_active(): the value it returns
is_active(s, h) == is_active_for(s, EffectOf(s, h), TargetOf(s, h))

\* EffectHandler.is_active(): the state it leaves
is_active_lookup(s, h) == is_active_for_lookup(s, EffectOf(s, h), TargetOf(s, h))

\* ------------------------------------------ player.py: cancel_all_effects
\* the order of self._effects.values(): the effects as EasyPlayer declares
\* them
EffectOrder == <<"noclip", "freeze", "fly", "burn">>

\* for effect in effect_list: effect.cancel()
\* The list iterator keeps an index i into the list, and cancel() removes
\* from that same list while the loop runs.
RECURSIVE cancel_each(_, _, _, _, _)
cancel_each(s, e, t, i, raises) ==
    LET effect_list == PlayerEffects(s, e, t)
    IN  IF s.exc # "none" \/ i > Len(effect_list) THEN s
        ELSE cancel_each(cancel(s, effect_list[i], raises), e, t, i + 1, raises)

\* for effect_list in self._effects.values(): ...
RECURSIVE cancel_lists(_, _, _, _)
cancel_lists(s, es, t, raises) ==
    IF s.exc # "none" \/ es = <<>> THEN s
    ELSE cancel_lists(cancel_each(s, Head(es), t, 1, raises), Tail(es), t, raises)

\* self._effects.clear(): the player's lists are dropped
clear(s, t) ==
    [s EXCEPT !.eh = [d \in DOMAIN @ |->
                         [k \in DOMAIN @[d] |->
                             IF k = identify_target(t) THEN <<>> ELSE @[d][k]]]]

\* EasyPlayer.cancel_all_effects
cancel_all_effects(s, t, raises) ==
    LET s1 == cancel_lists(s, EffectOrder, t, raises)
    IN  IF s1.exc # "none" THEN s1 ELSE clear(s1, t)

\* ------------------------------------------------------------ events.py
GameEventConversion(u, p, n) == [userid_key |-> u, player_key |-> p, event_name |-> n]

\* the dict in the order of its items: the three split events, then the
\* single player events the loop adds
DEFAULT_GAME_EVENT_CONVERSIONS ==
    << <<"player_blind",
         << GameEventConversion("attacker", "attacker", "player_blind"),
            GameEventConversion("userid", "victim", "player_go_blind") >> >>,
       <<"player_death",
         << GameEventConversion("assister", "assister", "player_assist"),
            GameEventConversion("attacker", "attacker", "player_kill"),
            GameEventConversion("userid", "victim", "player_death") >> >>,
       <<"player_hurt",
         << GameEventConversion("attacker", "attacker", "player_attack"),
            GameEventConversion("userid", "victim", "player_victim") >> >>,
       <<"bomb_defused", <<GameEventConversion("userid", "player", "bomb_defused")>> >>,
       <<"bomb_exploded", <<GameEventConversion("userid", "player", "bomb_exploded")>> >>,
       <<"bomb_planted", <<GameEventConversion("userid", "player", "bomb_planted")>> >>,
       <<"player_jump", <<GameEventConversion("userid", "player", "player_jump")>> >>,
       <<"player_spawn", <<GameEventConversion("userid", "player", "player_spawn")>> >> >>

\* The state an operation of the EventManager works on: ev is _events, gc
\* game_event_conversions, reg the game events event_manager calls
\* _on_game_event for; out collects the listener calls the operation
\* makes, fires the Event.fire calls, exc is the exception that ends it.
Mgr ==
    [ev |-> _events, gc |-> game_event_conversions, reg |-> registered,
     out |-> <<>>, fires |-> <<>>, exc |-> "none"]

\* self before EventManager.__init__ has assigned anything
NoManager ==
    [ev |-> <<>>, gc |-> <<>>, reg |-> {}, out |-> <<>>, fires |-> <<>>, exc |-> "none"]

\* Event(name): a new Event without listeners
Event(name) == [listeners |-> <<>>, named_listeners |-> <<>>]

\* EventManager.create_event: self._events[event_name] = Event(event_name)
create_event(m, event_name) ==
    [m EXCEPT !.ev = (event_name :> Event(event_name)) @@ @]

add_game_event_conversion(m, source_event_name, game_event_conversion) ==
    LET m1 == [m EXCEPT !.reg = @ \cup {source_event_name},
                        !.gc = DefaultGet(@, source_event_name)]
        m2 == [m1 EXCEPT !.gc[source_event_name] = Append(@, game_event_conversion)]
    IN  create_event(m2, game_event_conversion.event_name)

add_simple_game_event_conversion(m, event_name) ==
    add_game_event_conversion(m, event_name,
                              GameEventConversion("userid", "player", event_name))

\* for conversion in conversions: self.add_game_event_conversion(...)
RECURSIVE add_conversions(_, _, _)
add_conversions(m, game_event_name, conversions) ==
    IF conversions = <<>> THEN m
    ELSE add_conversions(add_game_event_conversion(m, game_event_name, Head(conversions)),
                         game_event_name, Tail(conversions))

\* for game_event_name, conversions in game_event_conversions.items(): ...
RECURSIVE add_all(_, _)
add_all(m, items) ==
    IF items = <<>> THEN m
    ELSE add_all(add_conversions(m, Head(items)[1], Head(items)[2]), Tail(items))

\* EventManager.__init__(player_dict) with the default conversions
EventManager(m) == add_all(m, DEFAULT_GAME_EVENT_CONVERSIONS)

\* EventManager.on(*event_names, named=named)(listener)
RECURSIVE EventManager_on(_, _, _, _)
EventManager_on(m, event_names, named, listener) ==
    IF event_names = <<>> THEN m
    ELSE LET event_name == Head(event_names)
         IN  IF event_name \notin DOMAIN m.ev THEN [m EXCEPT !.exc = "KeyError"]
             ELSE EventManager_on(
                      IF named
                          THEN [m EXCEPT !.ev[event_name].named_listeners = Append(@, listener)]
                      ELSE [m EXCEPT !.ev[event_name].listeners = Append(@, listener)],
                      Tail(event_names), named, listener)

\* listener(**kwargs) / listener(self.name, **kwargs), list after list
Notify(name, ls, named, kwargs) ==
    [i \in 1..Len(ls) |->
        [listener |-> ls[i], event |-> name, named |-> named, kwargs |-> kwargs]]

\* self[name].fire(event_args, **kwargs): kwargs.update(event_args), then
\* every listener is called with the merged arguments
Event_fire(m, name, event_args, kwargs) ==
    IF name \notin DOMAIN m.ev THEN [m EXCEPT !.exc = "KeyError"]
    ELSE LET merged == event_args @@ kwargs
         IN  [m EXCEPT !.fires = Append(@, [event |-> name, kwargs |-> merged]),
                       !.out = @ \o Notify(name, m.ev[name].listeners, FALSE, merged)
                                 \o Notify(name, m.ev[name].named_listeners, TRUE, merged)]

\* the userids that are players on the server
Userids == {1, 2}

\* a userid that is no player (0: the world)
NoUserids == {0}

\* the player object of a userid; player_dict.from_userid raises ValueError
\* for a userid that is no player's
from_userid(u) == 100 + u

\* d.pop(key) leaves d without the key
Without(d, key) == [k \in DOMAIN d \ {key} |-> d[k]]

\* the first loop of _on_game_event: userids become players, or None
RECURSIVE convert_userids(_, _)
convert_userids(event_args, conversions) ==
    IF conversions = <<>> THEN event_args
    ELSE LET c == Head(conversions)
             popped == Without(event_args, c.userid_key)
             after ==
                 IF c.userid_key \notin DOMAIN event_args
                     THEN (c.player_key :> None) @@ event_args
                 ELSE IF event_args[c.userid_key] \notin Userids
                     THEN (c.player_key :> None) @@ popped
                 ELSE (c.player_key :> from_userid(event_args[c.userid_key])) @@ popped
         IN  convert_userids(after, Tail(conversions))

\* the second loop of _on_game_event: the derived events are fired
RECURSIVE fire_conversions(_, _, _)
fire_conversions(m, event_args, conversions) ==
    IF m.exc # "none" \/ conversions = <<>> THEN m
    ELSE LET c == Head(conversions)
             player == event_args[c.player_key]
         IN  fire_conversions(
                 IF player # None
                     THEN Event_fire(m, c.event_name, event_args, ("player" :> player))
                 ELSE m,
                 event_args, Tail(conversions))

\* EventManager._on_game_event(game_event), variables = the event's fields
_on_game_event(m, name, variables) ==
    LET conversions == Lookup(m.gc, name)
        m1 == [m EXCEPT !.gc = DefaultGet(@, name)]
    IN  fire_conversions(m1, convert_userids(variables, conversions), conversions)

\* ---------------------------------------------- player.py: shift_property
\* the properties of the player the runs shift, and the value they start at
Props == {"health", "armor"}

BaseValue == 100

\* The state shift_property works on: pr the player's properties, sd the
\* Delay objects it made, exc the exception that ends the operation.
Shifting == [pr |-> props, sd |-> shift_delays, exc |-> "none"]

\* Delay(duration, self.shift_property, prop_name, -shift): a new pending
\* Delay that holds the callback's arguments as they were given, third and
\* fourth positional argument
ShiftDelay(q, prop_name, neg_shift) ==
    [q EXCEPT !.sd = @ @@ (NewId(q.sd) :>
                              [third |-> prop_name, fourth |-> neg_shift,
                               state |-> "pending"])]

\* EasyPlayer.shift_property(prop_name, shift, duration)
shift_property(q, prop_name, shift, duration) ==
    LET old_value == q.pr[prop_name]
        q1 == [q EXCEPT !.pr[prop_name] = old_value + shift]
    IN  IF duration # None /\ duration > 0
            THEN ShiftDelay(q1, prop_name, -shift)
        ELSE q1

\* The scheduler runs a pending Delay of shift_property.  What the call of
\* the callback is depends on the signature of listeners.tick.Delay, which
\* player.py and effect.py use differently:
\*   Delay(delay, callback, *args, **kwargs)  (star_args) calls
\*       shift_property(prop_name, -shift);
\*   Delay(delay, callback, args=(), kwargs=None, ...), the signature
\*       effect.py:152 relies on, calls shift_property(*prop_name,
\*       **(-shift)), which raises TypeError: a number is no mapping.
ShiftDelay_fire(q, d, star_args) ==
    LET q1 == [q EXCEPT !.sd[d].state = "fired"]
    IN  IF star_args
            THEN shift_property(q1, q.sd[d].third, q.sd[d].fourth, None)
        ELSE [q1 EXCEPT !.exc = "TypeError"]

\* ------------------------------------------------------------- actions
HandlerIds == 1..Len(handlers)

\* the handler the next descriptor access creates
NewHandler == Len(handlers) + 1

PendingDelays == {d \in DOMAIN delays : delays[d].state = "pending"}

\* what Delay.cancel() may do when handler h is cancelled: it is open only
\* when h refers to a Delay that is no longer scheduled
Outcomes(h) ==
    IF _delay[h] # None /\ delays[_delay[h]].state # "pending" THEN BOOLEAN
    ELSE {FALSE}

\* the callback called last for Effect e and key k once the calls of cb
\* are made: "on", "off", or "none" when none was ever called
RECURSIVE LastCall(_, _, _, _)
LastCall(cb, e, k, before) ==
    IF cb = <<>> THEN before
    ELSE LET c == cb[Len(cb)]
         IN  IF c[2] = e /\ identify_target(c[3]) = k THEN c[1]
             ELSE LastCall(SubSeq(cb, 1, Len(cb) - 1), e, k, before)

\* the operation's outcome (one value) becomes the next state
Commit(s0) ==
    \E s \in {Collect(s0)} :
        /\ effects' = s.ef
        /\ raising' = raising
        /\ last_call' = [e \in DOMAIN s.ef |-> [k \in Keys |->
               LastCall(s.cb, e, k,
                        IF e \in DOMAIN last_call THEN last_call[e][k] ELSE "none")]]
        /\ handlers' = s.hs
        /\ _effect_handlers' = s.eh
        /\ _delay' = s.hd
        /\ delays' = s.dl
        /\ move_type' = s.mt
        /\ ignite' = s.ig
        /\ UNCHANGED <<evars, svars>>

Init ==
    /\ effects = [e \in Effects |->
                      [on_f |-> Declared(e).on_f, off_f |-> Declared(e).off_f,
                       dict |-> e]]
    /\ handlers = <<>>
    /\ raising = FALSE
    /\ last_call = [e \in Effects |-> [k \in Keys |-> "none"]]
    /\ _delay = <<>>
    /\ _effect_handlers = [e \in Effects |-> <<>>]
    /\ delays = <<>>
    /\ move_type = [k \in Keys |-> "WALK"]
    /\ ignite = [k \in Keys |-> IGNITE_OFF]
    /\ nact = <<>>
    /\ nrev = <<>>
    /\ nexp = <<>>
    /\ _events = EventManager(NoManager).ev
    /\ game_event_conversions = EventManager(NoManager).gc
    /\ registered = EventManager(NoManager).reg
    /\ calls = <<>>
    /\ listening = {}
    /\ props = [prop_name \in Props |-> BaseValue]
    /\ shift_delays = <<>>
    /\ permanent = [prop_name \in Props |-> 0]
    /\ nshift = 0

\* target.effect(duration): a new handler, called at once
ApplyNew(e, t, duration) ==
    /\ Commit(__call__(__get__(Cur, e, t), NewHandler, duration))
    /\ nact' = Append(nact, 1)
    /\ nrev' = Append(nrev, 0)
    /\ nexp' = Append(nexp, 0)

ActivateNew(e, t, duration) ==
    /\ Len(handlers) < MaxHandlers
    /\ SumSeq(nact) < MaxActivations
    /\ ApplyNew(e, t, duration)

\* target.effect.cancel(): a new handler, cancelled without being applied
CancelNew(e, t) ==
    /\ Len(handlers) < MaxHandlers
    /\ \E s \in {cancel(__get__(Cur, e, t), NewHandler, FALSE)} :
           /\ Commit(s)
           /\ nrev' = Append(nrev, IF s.exc = "none" THEN 1 ELSE 0)
    /\ nact' = Append(nact, 0)
    /\ nexp' = Append(nexp, 0)

\* handler(duration) on a handler the caller kept
Activate(h, duration) ==
    /\ SumSeq(nact) < MaxActivations
    /\ Commit(__call__(Cur, h, duration))
    /\ nact' = [nact EXCEPT ![h] = @ + 1]
    /\ UNCHANGED <<nrev, nexp>>

\* handler.cancel() on a handler the caller kept
Cancel(h, raises) ==
    /\ \E s \in {cancel(Cur, h, raises)} :
           /\ Commit(s)
           /\ nrev' = [nrev EXCEPT ![h] = IF s.exc = "none" THEN @ + 1 ELSE @]
    /\ UNCHANGED <<nact, nexp>>

\* a pending Delay fires
Expire(d) ==
    /\ d \in PendingDelays
    /\ \E s \in {Delay_fire(Cur, d)} :
           /\ Commit(s)
           /\ nexp' = [nexp EXCEPT ![delays[d].handler] =
                          IF s.exc = "none" THEN @ + 1 ELSE @]
    /\ UNCHANGED <<nact, nrev>>

Next ==
    \/ \E e \in Effects, t \in Players, duration \in Durations : ActivateNew(e, t, duration)
    \/ \E e \in Effects, t \in Players : CancelNew(e, t)
    \/ \E h \in HandlerIds, duration \in Durations : Activate(h, duration)
    \/ \E h \in HandlerIds : \E raises \in Outcomes(h) : Cancel(h, raises)
    \/ \E d \in DOMAIN delays : Expire(d)

Spec == Init /\ [][Next]_vars

\* ----------------------------------------- rebinding: Effect.on / off
\* the declared effect the runs of SpecRebind rebind and apply
RebindBase == {"burn"}

RebindDurations == {None, 2}

\* the functions the runs of SpecRebind rebind with, as EasyPlayer's
\* @PlayerEffect / @burn.off
RebindOn == {"burn_on"}
RebindOff == {"burn_off"}

\* the Effect objects on() and off() created
Rebound == DOMAIN effects \ Effects

\* new = effect.on(f)
On(e, f) ==
    /\ Cardinality(Rebound) < MaxRebinds
    /\ Commit(on(Cur, e, f))
    /\ UNCHANGED <<nact, nrev, nexp>>

\* new = effect.off(f)
Off(e, f) ==
    /\ Cardinality(Rebound) < MaxRebinds
    /\ Commit(off(Cur, e, f))
    /\ UNCHANGED <<nact, nrev, nexp>>

NextRebind ==
    \/ \E e \in RebindBase \cup Rebound, f \in RebindOn : On(e, f)
    \/ \E e \in RebindBase \cup Rebound, f \in RebindOff : Off(e, f)
    \/ \E e \in RebindBase \cup Rebound, t \in Players, duration \in RebindDurations :
           ActivateNew(e, t, duration)
    \/ \E h \in HandlerIds : \E raises \in Outcomes(h) : Cancel(h, raises)
    \/ \E d \in DOMAIN delays : Expire(d)

SpecRebind == Init /\ [][NextRebind]_vars

\* ------------------------------------------------ a scheduler that runs
\* the effects and durations the runs of SpecTimer use
TimerEffects == {"freeze", "burn"}

TimerDurations == {None, 2}

\* the ids Delay objects can have
DelayIds == 1..MaxActivations

NextTimer ==
    \/ \E e \in TimerEffects, t \in Players, duration \in TimerDurations :
           ActivateNew(e, t, duration)
    \/ \E h \in HandlerIds, duration \in TimerDurations : Activate(h, duration)
    \/ \E h \in HandlerIds : \E raises \in Outcomes(h) : Cancel(h, raises)
    \/ \E d \in DOMAIN delays : Expire(d)

\* The tick listener of listeners.tick runs every Delay whose time has
\* come: a Delay that stays scheduled fires.
SpecTimer ==
    Init /\ [][NextTimer]_vars /\ \A d \in DelayIds : WF_vars(Expire(d))

\* ------------------------------------- several holders of one effect
\* The runs of SpecMove hold the movement effects by up to one handler more
\* than the other runs, with no durations.
MoveHandlers == MaxHandlers + 1

MoveActivations == MaxActivations + 1

\* player.noclip() / player.freeze()
ActivateMove(e, t) ==
    /\ Len(handlers) < MoveHandlers
    /\ SumSeq(nact) < MoveActivations
    /\ ApplyNew(e, t, None)

NextMove ==
    \/ \E e \in MovementEffects, t \in Players : ActivateMove(e, t)
    \/ \E h \in HandlerIds : \E raises \in Outcomes(h) : Cancel(h, raises)

SpecMove == Init /\ [][NextMove]_vars

\* ------------------------------------------------- the player's death
\* the effects and durations the runs of SpecDeath use
DeathEffects == {"freeze", "burn"}

DeathDurations == {None, 2}

\* what Delay.cancel() may do in cancel_all_effects: it is open when an
\* applied handler refers to a Delay that is no longer scheduled
OutcomesAll ==
    IF \E h \in HandlerIds : Outcomes(h) = BOOLEAN THEN BOOLEAN ELSE {FALSE}

\* _post_player_death: player.cancel_all_effects()
CancelAll(t, raises) ==
    /\ Commit(cancel_all_effects(Cur, t, raises))
    /\ UNCHANGED <<nact, nrev, nexp>>

NextDeath ==
    \/ \E t \in Players : \E raises \in OutcomesAll : CancelAll(t, raises)
    \/ \E e \in DeathEffects, t \in Players, duration \in DeathDurations :
           ActivateNew(e, t, duration)
    \/ \E h \in HandlerIds, duration \in DeathDurations : Activate(h, duration)
    \/ \E h \in HandlerIds : \E raises \in Outcomes(h) : Cancel(h, raises)
    \/ \E d \in DOMAIN delays : Expire(d)

SpecDeath == Init /\ [][NextDeath]_vars

\* --------------------------------------- target functions that raise
\* the effects and durations the runs of SpecRaise use
RaiseEffects == {"freeze", "burn"}

RaiseDurations == {None, 2}

\* the target functions begin, or cease, to raise (the player's entity is
\* gone, or back)
Break ==
    /\ raising' = ~raising
    /\ UNCHANGED <<effects, handlers, _delay, _effect_handlers, delays,
                   move_type, ignite, last_call, nact, nrev, nexp>>
    /\ UNCHANGED <<evars, svars>>

NextRaise ==
    \/ Break
    \/ \E e \in RaiseEffects, t \in Players, duration \in RaiseDurations :
           ActivateNew(e, t, duration)
    \/ \E h \in HandlerIds, duration \in RaiseDurations : Activate(h, duration)
    \/ \E h \in HandlerIds : \E raises \in Outcomes(h) : Cancel(h, raises)
    \/ \E d \in DOMAIN delays : Expire(d)

SpecRaise == Init /\ [][NextRaise]_vars

\* ------------------------------------------------ several target objects
\* the effects and durations the runs of SpecTargets use, on every object
\* of Targets
TargetEffects == {"freeze", "burn"}

TargetDurations == {None, 2}

NextTargets ==
    \/ \E e \in TargetEffects, t \in Targets, duration \in TargetDurations :
           ActivateNew(e, t, duration)
    \/ \E h \in HandlerIds : \E raises \in Outcomes(h) : Cancel(h, raises)
    \/ \E d \in DOMAIN delays : Expire(d)

SpecTargets == Init /\ [][NextTargets]_vars

\* ------------------------------------------------------------- queries
\* the effect and durations the runs of SpecQuery use, on every object of
\* Targets
QueryEffects == {"burn"}

QueryDurations == {None, 2}

\* Player.effect.is_active_for(target)
Query(e, t) ==
    /\ Commit(is_active_for_lookup(Cur, e, t))
    /\ UNCHANGED <<nact, nrev, nexp>>

\* handler.is_active() on a handler the caller kept
QueryHandler(h) ==
    /\ Commit(is_active_lookup(Cur, h))
    /\ UNCHANGED <<nact, nrev, nexp>>

NextQuery ==
    \/ \E e \in QueryEffects, t \in Targets : Query(e, t)
    \/ \E h \in HandlerIds : QueryHandler(h)
    \/ \E e \in QueryEffects, t \in Targets, duration \in QueryDurations :
           ActivateNew(e, t, duration)
    \/ \E h \in HandlerIds : \E raises \in Outcomes(h) : Cancel(h, raises)
    \/ \E d \in DOMAIN delays : Expire(d)

SpecQuery == Init /\ [][NextQuery]_vars

\* ------------------------------------------------- the event manager
\* the game events that arrive in the runs of SpecEvents, and their fields
\* that hold userids
EventSources == {"player_hurt", "player_jump"}

UseridFields(name) == IF name = "player_hurt" THEN {"userid", "attacker"} ELSE {"userid"}

\* the userids the fields hold: a player's, or the world's 0
FieldValues == {0, 1}

\* game_event.variables.as_dict() of the game events that can arrive
Variables(name) ==
    UNION {[fields -> FieldValues] : fields \in SUBSET UseridFields(name)}

\* the events a run listens to and creates, and its listeners
ListenEvents == {"player_victim", "player_jump", "player_hurt"}

CreatedEvents == {"player_jump", "my_custom_event"}

Listeners == {"on_event"}

\* the listeners the events hold, and the conversions a run added
AllListeners ==
    UNION {{<<n, FALSE, i>> : i \in 1..Len(_events[n].listeners)}
           \cup {<<n, TRUE, i>> : i \in 1..Len(_events[n].named_listeners)}
           : n \in DOMAIN _events}

DefaultConversions(name) ==
    Len(Lookup(EventManager(NoManager).gc, name))

AddedConversions ==
    UNION {{<<n, i>> : i \in (DefaultConversions(n) + 1)..Len(game_event_conversions[n])}
           : n \in DOMAIN game_event_conversions}

\* the operation's outcome becomes the next state
CommitEvents(m) ==
    /\ _events' = m.ev
    /\ game_event_conversions' = m.gc
    /\ registered' = m.reg
    /\ calls' = m.out
    /\ UNCHANGED <<pvars, svars>>

\* events.create_event(name)
CreateEvent(event_name) ==
    /\ CommitEvents(create_event(Mgr, event_name))
    /\ UNCHANGED listening

\* events.add_simple_game_event_conversion(name)
AddSimpleConversion(event_name) ==
    /\ Cardinality(AddedConversions) < MaxConversions
    /\ CommitEvents(add_simple_game_event_conversion(Mgr, event_name))
    /\ UNCHANGED listening

\* @events.on(name, named=named) on a listener
Listen(event_name, named, listener) ==
    /\ Cardinality(AllListeners) < MaxListeners
    /\ \E m \in {EventManager_on(Mgr, <<event_name>>, named, listener)} :
           /\ CommitEvents(m)
           /\ listening' = IF m.exc = "none"
                               THEN listening \cup {<<event_name, named, listener>>}
                           ELSE listening

\* events[name].fire()
Fire(event_name) ==
    /\ event_name \in DOMAIN _events
    /\ CommitEvents(Event_fire(Mgr, event_name, <<>>, <<>>))
    /\ UNCHANGED listening

\* event_manager calls _on_game_event with a game event that arrived
GameEvent(name, variables) ==
    /\ name \in registered
    /\ CommitEvents(_on_game_event(Mgr, name, variables))
    /\ UNCHANGED listening

NextEvents ==
    \/ \E n \in CreatedEvents : CreateEvent(n)
    \/ \E n \in EventSources : AddSimpleConversion(n)
    \/ \E n \in ListenEvents, named \in BOOLEAN, l \in Listeners : Listen(n, named, l)
    \/ \E n \in ListenEvents \cup CreatedEvents : Fire(n)
    \/ \E n \in EventSources : \E variables \in Variables(n) : GameEvent(n, variables)

SpecEvents == Init /\ [][NextEvents]_vars

\* ----------------------------------------------------- shifted properties
\* the shifts and durations the runs of SpecShift use
Shifts == {-10, 25}

ShiftDurations == {None, 0, 2}

PendingShifts == {d \in DOMAIN shift_delays : shift_delays[d].state = "pending"}

CommitShift(q) ==
    /\ props' = q.pr
    /\ shift_delays' = q.sd
    /\ UNCHANGED <<pvars, evars>>

\* player.shift_property(prop_name, shift, duration), called by a plugin
Shift(prop_name, shift, duration) ==
    /\ nshift < MaxShifts
    /\ CommitShift(shift_property(Shifting, prop_name, shift, duration))
    /\ nshift' = nshift + 1
    /\ permanent' = IF duration # None /\ duration > 0 THEN permanent
                    ELSE [permanent EXCEPT ![prop_name] = @ + shift]

\* a pending Delay of shift_property fires
ExpireShift(d, star_args) ==
    /\ d \in PendingShifts
    /\ CommitShift(ShiftDelay_fire(Shifting, d, star_args))
    /\ UNCHANGED <<permanent, nshift>>

NextShift ==
    \/ \E prop_name \in Props, shift \in Shifts, duration \in ShiftDurations :
           Shift(prop_name, shift, duration)
    \/ \E d \in DOMAIN shift_delays : \E star_args \in BOOLEAN : ExpireShift(d, star_args)

SpecShift == Init /\ [][NextShift]_vars

TypeOK ==
    /\ raising \in BOOLEAN
    /\ DOMAIN last_call = DOMAIN effects
    /\ \A e \in DOMAIN effects : effects[e].dict \in DOMAIN _effect_handlers
    /\ move_type \in [Keys -> MoveTypes]
    /\ Len(_delay) = Len(handlers)
    /\ Len(nact) = Len(handlers)
    /\ \A h \in HandlerIds : _delay[h] = None \/ _delay[h] \in DOMAIN delays

\* ------------------------------------------------------------- claims
\* Each formula below is a state predicate: in every reachable state it
\* applies the operations of the program that can be called there (the same
\* operators the actions commit) and states what they return.

\* the number of handlers applied for effect e and key k
Applied(s, e, k) == Len(Lookup(s.eh[DictOf(s, e)], k))

\* the lists of applied handlers, key by key
Leases(s) == [e \in DOMAIN s.ef |-> [k \in Keys |-> Lookup(s.eh[DictOf(s, e)], k)]]

HasOff(s) == \E i \in 1..Len(s.cb) : s.cb[i][1] = "off"

\* applies minus successful revokes of the handlers of effect e and key k
RECURSIVE NetUpTo(_, _, _)
NetUpTo(e, k, n) ==
    IF n = 0 THEN 0
    ELSE NetUpTo(e, k, n - 1)
         + (IF handlers[n].effect = e /\ identify_target(handlers[n].target) = k
                THEN nact[n] - nrev[n] - nexp[n]
            ELSE 0)

Net(e, k) == NetUpTo(e, k, Len(handlers))

\* the mode the priority order noclip > freeze > fly > walk gives
PriorityScan(s, t) ==
    IF is_active_for(s, "noclip", t) THEN "NOCLIP"
    ELSE IF is_active_for(s, "freeze", t) THEN "NONE"
    ELSE IF is_active_for(s, "fly", t) THEN "FLY"
    ELSE "WALK"

\* the callbacks a call on handler h made, against the edge it crossed
EdgeCallbacks(s0, s, h) ==
    LET e == EffectOf(s0, h)
        t == TargetOf(s0, h)
        b == Applied(s0, e, identify_target(t))
        a == Applied(s, e, identify_target(t))
    IN  s.cb = IF b = 0 /\ a = 1 THEN << <<"on", e, t>> >>
               ELSE IF b = 1 /\ a = 0 THEN << <<"off", e, t>> >>
               ELSE <<>>

\* C1: every activate, cancel and timer expiry calls on_f exactly once when
\* it takes the number of applied handlers of the key from 0 to 1, off_f
\* exactly once when it takes it from 1 to 0, and calls neither otherwise.
\* (Holds of every call, also without the pairing the claim assumes.)
C1_OnOffOncePerEdge ==
    /\ \A h \in HandlerIds, d \in Durations :
           EdgeCallbacks(Cur, __call__(Cur, h, d), h)
    /\ \A e \in Effects, t \in Players, d \in Durations :
           LET s0 == __get__(Cur, e, t)
           IN  EdgeCallbacks(s0, __call__(s0, NewHandler, d), NewHandler)
    /\ \A h \in HandlerIds : \A r \in Outcomes(h) :
           EdgeCallbacks(Cur, cancel(Cur, h, r), h)
    /\ \A d \in PendingDelays :
           EdgeCallbacks(Cur, Delay_fire(Cur, d), delays[d].handler)

\* two handlers of one effect were each activated once and each cancelled,
\* and a third call can cross the 0 -> 1 edge again
C1_Witness ==
    \E h1, h2 \in HandlerIds :
        /\ h1 # h2
        /\ handlers[h1] = handlers[h2]
        /\ nact[h1] = 1 /\ nact[h2] = 1
        /\ nrev[h1] = 1 /\ nrev[h2] = 1
        /\ Applied(Cur, handlers[h1].effect, identify_target(handlers[h1].target)) = 0

\* C2: is_active_for(target) is true exactly when the applies minus the
\* successful revokes (by cancel() or by a timer) of the target's key are
\* more than 0.
C2_ActiveIffNetPositive ==
    \A e \in Effects, t \in Targets :
        is_active_for(Cur, e, t) <=> Net(e, identify_target(t)) > 0

\* an effect is still active after one of its handlers was revoked
C2_Witness ==
    \E h1, h2 \in HandlerIds :
        /\ h1 # h2
        /\ handlers[h1] = handlers[h2]
        /\ nact[h1] = 1 /\ nrev[h1] + nexp[h1] = 1
        /\ is_active_for(Cur, handlers[h1].effect, handlers[h1].target)
        /\ Net(handlers[h1].effect, identify_target(handlers[h1].target)) = 1

\* the outcome s of revoking handler h when s0 held; C3's statement
LastOnlyOff(s0, s, h) ==
    LET e == EffectOf(s0, h)
        t == TargetOf(s0, h)
        k == identify_target(t)
    IN  /\ Applied(s0, e, k) >= 2 => ~HasOff(s) /\ is_active_for(s, e, t)
        /\ HasOff(s) => Lookup(s0.eh[DictOf(s0, e)], k) = <<h>>

\* C3: while two or more handlers of an effect are applied to a target,
\* the cancel or the expiry of one of them calls no off_f and leaves the
\* effect active; off_f is called only when the last applied handler goes.
C3_OffOnlyOnLast ==
    /\ \A h \in HandlerIds : \A r \in Outcomes(h) :
           LastOnlyOff(Cur, cancel(Cur, h, r), h)
    /\ \A d \in PendingDelays :
           LastOnlyOff(Cur, Delay_fire(Cur, d), delays[d].handler)

\* two handlers hold one effect, one with a timer: either can be cancelled
\* and one can expire while the other still holds the effect
C3_Witness ==
    \E h1, h2 \in HandlerIds :
        /\ h1 # h2
        /\ handlers[h1] = handlers[h2]
        /\ Lookup(_effect_handlers[DictOf(Cur, handlers[h1].effect)],
                  identify_target(handlers[h1].target)) = <<h1, h2>>
        /\ _delay[h2] \in PendingDelays
        /\ ~HasOff(cancel(Cur, h1, FALSE))
        /\ ~HasOff(Delay_fire(Cur, _delay[h2]))

OnlyHandler(h, e) ==
    /\ h \in HandlerIds
    /\ handlers[h].effect = e
    /\ nact[h] = 1 /\ nrev[h] = 0 /\ nexp[h] = 0

ModeAfterRelease(s0, s, h) ==
    LET e == EffectOf(s0, h)
        t == TargetOf(s0, h)
        k == identify_target(t)
    IN  (e \in MovementEffects /\ Applied(s0, e, k) = 1 /\ Applied(s, e, k) = 0)
            => s.mt[k] = PriorityScan(s, t)

PendingOf(h) == {d \in PendingDelays : delays[d].handler = h}

\* C7: cancelling a handler (activated once, with a duration) before its
\* Delay fires cancels the Delay and clears the reference, and once the
\* handler is cancelled no Delay of it is scheduled any more, so none fires.
C7_CancelStopsTimer ==
    \A h \in HandlerIds :
        nact[h] = 1 =>
            /\ _delay[h] \in PendingDelays =>
                   LET s == cancel(Cur, h, FALSE)
                   IN  /\ s.exc = "none"
                       /\ s.dl[_delay[h]].state = "cancelled"
                       /\ s.hd[h] = None
                       /\ Collect(s).dl = [d \in DOMAIN delays \ {_delay[h]} |-> delays[d]]
            /\ nrev[h] = 1 => PendingOf(h) = {}

\* a handler activated once whose Delay is scheduled, and one cancelled
C7_Witness ==
    /\ \E h \in HandlerIds : nact[h] = 1 /\ _delay[h] \in PendingDelays
    /\ \E h \in HandlerIds : nact[h] = 1 /\ nrev[h] = 1 /\ _delay[h] = None

\* C8: a second cancel() of a handler that was activated once and cancelled
\* removes no lease: every list of applied handlers is as before, off_f is
\* not called and the effect is as active as it was.
C8_SecondCancelKeepsLeases ==
    \A h \in HandlerIds :
        (nact[h] = 1 /\ nrev[h] = 1) =>
            \A r \in Outcomes(h) :
                LET s == cancel(Cur, h, r)
                IN  /\ Leases(s) = Leases(Cur)
                    /\ s.cb = <<>>
                    /\ is_active(s, h) <=> is_active(Cur, h)

\* a cancelled handler whose effect another handler still holds
C8_Witness ==
    \E h1, h2 \in HandlerIds :
        /\ h1 # h2
        /\ handlers[h1] = handlers[h2]
        /\ nact[h1] = 1 /\ nrev[h1] = 1
        /\ Lookup(_effect_handlers[DictOf(Cur, handlers[h1].effect)],
                  identify_target(handlers[h1].target)) = <<h2>>
        /\ is_active(cancel(Cur, h1, FALSE), h2)

\* C9: a second cancel() of a handler that was activated once and cancelled
\* raises no exception and changes nothing.
C9_SecondCancelSilent ==
    \A h \in HandlerIds :
        (nact[h] = 1 /\ nrev[h] = 1) =>
            \A r \in Outcomes(h) :
                LET s == cancel(Cur, h, r)
                IN  /\ s.exc = "none"
                    /\ Leases(s) = Leases(Cur)
                    /\ s.cb = <<>>

\* C10: cancel() of a handler (activated once) whose Delay has fired raises
\* no exception, changes no counter and calls no off_f.
C10_CancelAfterExpirySilent ==
    \A h \in HandlerIds :
        (nact[h] = 1 /\ nexp[h] = 1) =>
            \A r \in Outcomes(h) :
                LET s == cancel(Cur, h, r)
                IN  /\ s.exc = "none"
                    /\ Leases(s) = Leases(Cur)
                    /\ s.cb = <<>>

\* the outcome s of Effect._cancel(h) when s0 held and h was not applied
RejectsUnapplied(s0, s, h) ==
    h \notin Range(Lookup(s0.eh[DictOf(s0, EffectOf(s0, h))], KeyOf(s0, h))) =>
        /\ s.exc = "ValueError"
        /\ Leases(s) = Leases(s0)
        /\ s.cb = <<>>
        /\ s.mt = s0.mt /\ s.ig = s0.ig

\* C11: Effect._cancel of a handler that is not applied (never applied, or
\* already revoked) fails with an error (list.remove's ValueError) and
\* changes nothing: no list of applied handlers loses an entry and off_f is
\* not called.
C11_RevokeUnappliedFails ==
    /\ \A h \in HandlerIds : RejectsUnapplied(Cur, _cancel(Cur, h), h)
    /\ \A e \in Effects, t \in Players :
           LET s0 == __get__(Cur, e, t)
           IN  RejectsUnapplied(s0, _cancel(s0, NewHandler), NewHandler)
    /\ \A d \in PendingDelays :
           RejectsUnapplied(Cur, Delay_fire(Cur, d), delays[d].handler)

\* a handler that was never applied, one that was revoked, and a Delay
\* whose handler is no longer applied, while the effect is still held
C11_Witness ==
    \/ \E h1, h2 \in HandlerIds :
           /\ handlers[h1] = handlers[h2]
           /\ nact[h1] = 0
           /\ is_active(Cur, h2)
           /\ _cancel(Cur, h1).exc = "ValueError"
    \/ \E d \in PendingDelays :
           /\ nrev[delays[d].handler] = 2
           /\ Delay_fire(Cur, d).exc = "ValueError"

\* the counters of Effect e, key by key
Counters(s, e) == [k \in Keys |-> Applied(s, e, k)]

\* s is the outcome of e.on(f) or e.off(f) when s0 held
RebindFresh(s0, s) ==
    LET n == NewEffect(s0.ef)
    IN  /\ DOMAIN s.ef = DOMAIN s0.ef \cup {n}
        /\ Counters(s, n) = [k \in Keys |-> 0]
        /\ \A e \in DOMAIN s0.ef : Counters(s, e) = Counters(s0, e)

\* s is the outcome of an apply or a revoke of handler h when s0 held
OthersKeep(s0, s, h) ==
    \A e \in DOMAIN s0.ef \ {EffectOf(s0, h)} : Counters(s, e) = Counters(s0, e)

\* C12: Effect.on(f) and Effect.off(f) return a new Effect whose counters
\* are zero for every target whatever the original's counts are and leave
\* the counters of the original as they are; afterwards an apply or a
\* revoke on one Effect never changes the counters of another.
C12_RebindFreshCounters ==
    /\ Cardinality(Rebound) < Cardinality(NewEffects) =>
           \A e \in DOMAIN effects :
               /\ \A f \in RebindOn : RebindFresh(Cur, on(Cur, e, f))
               /\ \A f \in RebindOff : RebindFresh(Cur, off(Cur, e, f))
    /\ \A h \in HandlerIds, d \in RebindDurations :
           OthersKeep(Cur, __call__(Cur, h, d), h)
    /\ \A e \in DOMAIN effects, t \in Players, d \in RebindDurations :
           LET s0 == __get__(Cur, e, t)
           IN  OthersKeep(s0, __call__(s0, NewHandler, d), NewHandler)
    /\ \A h \in HandlerIds : \A r \in Outcomes(h) :
           OthersKeep(Cur, cancel(Cur, h, r), h)
    /\ \A d \in PendingDelays :
           OthersKeep(Cur, Delay_fire(Cur, d), delays[d].handler)

\* an Effect made by on() or off() while a declared effect was applied: a
\* handler of the new Effect was applied and revoked, the declared effect
\* is still held once
C12_Witness ==
    \E n \in Rebound, e \in RebindBase, h1, h2 \in HandlerIds :
        /\ handlers[h1].effect = e /\ handlers[h2].effect = n
        /\ nact[h1] = 1 /\ nrev[h1] + nexp[h1] = 0
        /\ nact[h2] = 1 /\ nrev[h2] + nexp[h2] = 1
        /\ Counters(Cur, e)[identify_target(handlers[h1].target)] = 1
        /\ Counters(Cur, n)[identify_target(handlers[h2].target)] = 0

\* the calls of cb, made after the calls recorded in last_call, keep on_f
\* and off_f alternating for every Effect and key, on_f first
Alternates(cb) ==
    \A i \in 1..Len(cb) :
        LET e == cb[i][2]
            k == identify_target(cb[i][3])
            prev == LastCall(SubSeq(cb, 1, i - 1), e, k, last_call[e][k])
        IN  IF cb[i][1] = "on" THEN prev # "on" ELSE prev = "on"

\* C13: for one Effect and one target, over any sequence of activate,
\* cancel and timer expiries, on_f and off_f are called alternately, on_f
\* first: never on_f twice with no off_f between, never off_f with no
\* unmatched on_f before it.
C13_OnOffAlternate ==
    /\ \A h \in HandlerIds, d \in Durations :
           Alternates(__call__(Cur, h, d).cb)
    /\ \A e \in DOMAIN effects, t \in Players, d \in Durations :
           Alternates(__call__(__get__(Cur, e, t), NewHandler, d).cb)
    /\ \A h \in HandlerIds : \A r \in Outcomes(h) :
           Alternates(cancel(Cur, h, r).cb)
    /\ \A d \in PendingDelays :
           Alternates(Delay_fire(Cur, d).cb)

\* C14: handler(duration) on a new handler schedules an auto-expiry
\* callback exactly when the duration is given and positive; with None, 0
\* or a negative duration no callback is scheduled and the handler keeps no
\* reference to one.
C14_SchedulesOnlyPositive ==
    \A e \in Effects, t \in Players, d \in Durations :
        LET s0 == __get__(Cur, e, t)
            s == __call__(s0, NewHandler, d)
        IN  IF d # None /\ d > 0
                THEN /\ s.hd[NewHandler] \in DOMAIN s.dl \ DOMAIN s0.dl
                     /\ s.dl[s.hd[NewHandler]] =
                            [handler |-> NewHandler, state |-> "pending"]
            ELSE /\ s.dl = s0.dl
                 /\ s.hd[NewHandler] = None

\* the handlers applied for the Effect and key of handler h
ListOf(h) ==
    Lookup(_effect_handlers[DictOf(Cur, handlers[h].effect)],
           identify_target(handlers[h].target))

LastCallOf(h) ==
    last_call[handlers[h].effect][identify_target(handlers[h].target)]

\* C15: a handler activated with a duration and never cancelled by hand is
\* in the end revoked by its timer, the scheduler firing every Delay that
\* stays scheduled: every scheduled Delay leaves the schedule, and when it
\* does so with no cancel() of its handler, its handler is revoked; if
\* that handler was the only one applied for the target the effect is
\* inactive from then on and the expiry called off_f once.
C15_TimerRevokes ==
    /\ \A d \in DelayIds : (d \in PendingDelays) ~> (d \notin PendingDelays)
    /\ [][\A d \in PendingDelays, h \in HandlerIds :
              (h = delays[d].handler /\ nrev[h] = 0 /\ nrev'[h] = 0
               /\ d \notin PendingDelays')
                      => /\ nexp'[h] = nexp[h] + 1
                         /\ Len(ListOf(h)') = Len(ListOf(h)) - 1
                         /\ ListOf(h) = <<h>>
                                => /\ ~is_active(Cur, h)'
                                   /\ LastCallOf(h) = "on"
                                   /\ LastCallOf(h)' = "off"]_vars

\* a handler activated once with a duration, never cancelled, whose timer
\* revoked it and left the effect inactive
C15_Witness ==
    \E h \in HandlerIds :
        /\ nact[h] = 1 /\ nrev[h] = 0 /\ nexp[h] = 1
        /\ ~is_active(Cur, h)
        /\ LastCallOf(h) = "off"

\* some handler of Effect e and key k is applied and not yet revoked
SomeHolder(e, k) ==
    \E h2 \in HandlerIds :
        /\ handlers[h2].effect = e
        /\ identify_target(handlers[h2].target) = k
        /\ nact[h2] - nrev[h2] - nexp[h2] > 0

\* C16: EffectHandler.is_active() tells the state of the Effect for the
\* target, not the handler's own: every handler of an (Effect, target)
\* pair, also one never activated, one already cancelled and one just made
\* by the descriptor, returns true exactly while some handler of the pair
\* is applied, which is what Effect.is_active_for(target) returns.
C16_IsActiveAggregate ==
    /\ \A h \in HandlerIds :
           /\ is_active(Cur, h)
                  <=> SomeHolder(handlers[h].effect, identify_target(handlers[h].target))
           /\ is_active(Cur, h)
                  <=> is_active_for(Cur, handlers[h].effect, handlers[h].target)
    /\ \A e \in Effects, t \in Players :
           is_active(__get__(Cur, e, t), NewHandler)
               <=> SomeHolder(e, identify_target(t))

\* a handler that was never activated and one that was cancelled, both of
\* an effect another handler holds: is_active() is true for them
C16_Witness ==
    \/ \E h1, h2 \in HandlerIds :
           /\ handlers[h1] = handlers[h2]
           /\ nact[h1] = 0 /\ nact[h2] = 1 /\ nrev[h2] + nexp[h2] = 0
           /\ is_active(Cur, h1)
    \/ \E h1, h2 \in HandlerIds :
           /\ handlers[h1] = handlers[h2]
           /\ nact[h1] = 1 /\ nrev[h1] = 1
           /\ nact[h2] = 1 /\ nrev[h2] + nexp[h2] = 0
           /\ is_active(Cur, h1)

\* the outcome s of player.cancel_all_effects() when s0 held
AllCancelled(s0, s, t) ==
    /\ s.exc = "none"
    /\ \A e \in Effects : ~is_active_for(s, e, t)
    /\ \A d \in DOMAIN s.dl :
           (s0.dl[d].state = "pending"
            /\ s0.dl[d].handler \in Range(PlayerEffects(s0, EffectOf(s0, s0.dl[d].handler), t)))
               => s.dl[d].state = "cancelled"
    /\ \A e \in Effects :
           is_active_for(s0, e, t) => <<"off", e, t>> \in Range(s.cb)

\* C17: EasyPlayer.cancel_all_effects() cancels every handler applied to
\* the player, however many handlers an effect has: it raises nothing,
\* afterwards no effect is active for the player, every scheduled Delay of
\* those handlers is cancelled, and the off function of every effect that
\* was active has run.
C17_CancelAllCancelsAll ==
    \A t \in Players : \A r \in OutcomesAll :
        AllCancelled(Cur, cancel_all_effects(Cur, t, r), t)

\* the outcome s of handler h's activation when s0 held; C18's statement
RecordedBeforeOn(s0, s, h) ==
    (\E i \in 1..Len(s.cb) : s.cb[i][1] = "on") =>
        /\ \A i \in 1..Len(s.obs) : s.obs[i]
        /\ s0.fail => s.exc = "Raised"
        /\ h \in Range(Lookup(s.eh[DictOf(s, EffectOf(s0, h))], KeyOf(s0, h)))

\* C18: Effect._apply records the handler before it calls on_f on a 0 -> 1
\* transition: on_f sees is_active_for(target) true, and when on_f raises
\* the exception reaches the caller of the activation while the handler
\* stays counted as applied.
C18_RecordedBeforeOn ==
    /\ \A h \in HandlerIds, d \in Durations :
           RecordedBeforeOn(Cur, __call__(Cur, h, d), h)
    /\ \A e \in Effects, t \in Players, d \in Durations :
           LET s0 == __get__(Cur, e, t)
           IN  RecordedBeforeOn(s0, __call__(s0, NewHandler, d), NewHandler)

\* the outcome s of revoking handler h when s0 held; C19's statement
RemovedBeforeOff(s0, s, h) ==
    HasOff(s) =>
        /\ \A i \in 1..Len(s.obs) : ~s.obs[i]
        /\ s0.fail => s.exc = "Raised"
        /\ Applied(s, EffectOf(s0, h), KeyOf(s0, h)) = 0

\* C19: Effect._cancel removes the handler before it calls off_f on a
\* 1 -> 0 transition: off_f sees is_active_for(target) false, and when
\* off_f raises the exception reaches the caller of cancel() while the
\* counter stays 0 and the handler's _delay is already cleared, its Delay
\* no longer scheduled.
C19_RemovedBeforeOff ==
    /\ \A h \in HandlerIds : \A r \in Outcomes(h) :
           LET s == cancel(Cur, h, r)
           IN  /\ RemovedBeforeOff(Cur, s, h)
               /\ HasOff(s) =>
                      /\ s.hd[h] = None
                      /\ _delay[h] # None => s.dl[_delay[h]].state # "pending"
    /\ \A d \in PendingDelays :
           RemovedBeforeOff(Cur, Delay_fire(Cur, d), delays[d].handler)

\* the only applied handler of an effect has a Delay scheduled and the off
\* function raises: cancel() ends in that exception
C19_Witness ==
    \E h \in HandlerIds :
        /\ raising
        /\ ListOf(h) = <<h>>
        /\ _delay[h] \in PendingDelays
        /\ cancel(Cur, h, FALSE).exc = "Raised"
        /\ cancel(Cur, h, FALSE).cb = << <<"off", handlers[h].effect, handlers[h].target>> >>

\* the outcome s of a call on handler h of a movement effect when s0 held:
\* with another handler of the effect applied before and after, no 0 <-> 1
\* edge is crossed and the mode is as it was
ModeKept(s0, s, h) ==
    LET e == EffectOf(s0, h)
        k == KeyOf(s0, h)
    IN  (/\ e \in MovementEffects
         /\ Range(Lookup(s0.eh[DictOf(s0, e)], k)) \ {h} # {}
         /\ Range(Lookup(s.eh[DictOf(s, e)], k)) \ {h} # {})
            => s.mt = s0.mt /\ s.cb = <<>>

OnlyOwnKey(s0, s, h) ==
    LET e == EffectOf(s0, h)
        t == TargetOf(s0, h)
    IN  /\ \A e2 \in TargetEffects, t2 \in Targets :
               (e2 # e \/ userid(t2) # userid(t)) =>
                   /\ Applied(s, e2, userid(t2)) = Applied(s0, e2, userid(t2))
                   /\ is_active_for(s, e2, t2) <=> is_active_for(s0, e2, t2)
        /\ \A i \in 1..Len(s.cb) : s.cb[i][2] = e /\ s.cb[i][3] = t

\* C21: activate, cancel and timer expiry for a target with key k change
\* only the counter of k in the handler's Effect and call on_f / off_f only
\* with that target: the counters and is_active_for results of every other
\* key and of every other Effect are as before.
C21_OnlyOwnKeyChanges ==
    /\ \A h \in HandlerIds, d \in TargetDurations :
           OnlyOwnKey(Cur, __call__(Cur, h, d), h)
    /\ \A e \in TargetEffects, t \in Targets, d \in TargetDurations :
           LET s0 == __get__(Cur, e, t)
           IN  OnlyOwnKey(s0, __call__(s0, NewHandler, d), NewHandler)
    /\ \A h \in HandlerIds : \A r \in Outcomes(h) :
           OnlyOwnKey(Cur, cancel(Cur, h, r), h)
    /\ \A d \in PendingDelays :
           OnlyOwnKey(Cur, Delay_fire(Cur, d), delays[d].handler)

\* one effect was applied to two players, one handler each; the first
\* was revoked and the effect is still active for the second player only
C21_Witness ==
    \E h1, h2 \in HandlerIds :
        /\ handlers[h1].effect = handlers[h2].effect
        /\ userid(handlers[h1].target) # userid(handlers[h2].target)
        /\ nact[h1] = 1 /\ nrev[h1] + nexp[h1] = 1
        /\ nact[h2] = 1 /\ nrev[h2] + nexp[h2] = 0
        /\ ~is_active(Cur, h1)
        /\ is_active(Cur, h2)
        /\ ListOf(h2) = <<h2>>

\* applies minus successful revokes of the handlers of effect e made
\* through any object of the player with userid u
RECURSIVE NetOfPlayerUpTo(_, _, _)
NetOfPlayerUpTo(e, u, n) ==
    IF n = 0 THEN 0
    ELSE NetOfPlayerUpTo(e, u, n - 1)
         + (IF handlers[n].effect = e /\ userid(handlers[n].target) = u
                THEN nact[n] - nrev[n] - nexp[n]
            ELSE 0)

NetOfPlayer(e, u) == NetOfPlayerUpTo(e, u, Len(handlers))

\* the callbacks of revoking a handler of effect e and target t: off_f
\* when it is the last one applied through any object of the player
LastOfPlayerOff(s, e, t) ==
    s.exc = "none" =>
        s.cb = IF NetOfPlayer(e, userid(t)) = 1 THEN << <<"off", e, t>> >> ELSE <<>>

\* C22: counters are keyed by identify_target(target), not by the target
\* object: handlers made through two objects with the same key add up in
\* one counter, on_f is called only for the first of them applied, off_f
\* only when the last of them is revoked, and is_active_for is the same for
\* both objects.
C22_KeyedByIdentity ==
    /\ \A e \in TargetEffects, t1, t2 \in Targets :
           userid(t1) = userid(t2) =>
               /\ is_active_for(Cur, e, t1) <=> is_active_for(Cur, e, t2)
               /\ is_active_for(Cur, e, t1) <=> NetOfPlayer(e, userid(t1)) > 0
    /\ \A e \in TargetEffects, t \in Targets, d \in TargetDurations :
           __call__(__get__(Cur, e, t), NewHandler, d).cb =
               IF NetOfPlayer(e, userid(t)) = 0 THEN << <<"on", e, t>> >> ELSE <<>>
    /\ \A h \in HandlerIds : \A r \in Outcomes(h) :
           LastOfPlayerOff(cancel(Cur, h, r), handlers[h].effect, handlers[h].target)
    /\ \A d \in PendingDelays :
           LastOfPlayerOff(Delay_fire(Cur, d), handlers[delays[d].handler].effect,
                           handlers[delays[d].handler].target)

\* two objects of one player each applied a handler of one effect, the
\* first was revoked without off_f and the effect is active for both
C22_Witness ==
    \E h1, h2 \in HandlerIds :
        /\ handlers[h1].effect = handlers[h2].effect
        /\ handlers[h1].target = "p1" /\ handlers[h2].target = "p1b"
        /\ nact[h1] = 1 /\ nrev[h1] + nexp[h1] = 1
        /\ nact[h2] = 1 /\ nrev[h2] + nexp[h2] = 0
        /\ ListOf(h1) = <<h2>>
        /\ LastCallOf(h1) = "on"
        /\ is_active_for(Cur, handlers[h1].effect, "p1")
        /\ is_active_for(Cur, handlers[h1].effect, "p1b")

\* how many times handler h is in the list q
Occurrences(q, h) == Cardinality({i \in 1..Len(q) : q[i] = h})

\* C23: a second handler() on a handler already applied, with no cancel
\* between, counts the handler a second time and calls no on_f; the effect
\* stays active after one cancel() of the handler and becomes inactive
\* (off_f called) only with a second cancel() of it.
C23_DoubleActivate ==
    \A h \in HandlerIds :
        LET e == handlers[h].effect
            k == identify_target(handlers[h].target)
        IN  /\ (nact[h] = 1 /\ nrev[h] = 0 /\ nexp[h] = 0) =>
                   \A d \in TimerDurations :
                       LET s == __call__(Cur, h, d)
                       IN  /\ s.exc = "none"
                           /\ s.cb = <<>>
                           /\ Applied(s, e, k) = Applied(Cur, e, k) + 1
                           /\ Occurrences(Lookup(s.eh[DictOf(s, e)], k), h) = 2
            /\ (nact[h] = 2 /\ nrev[h] = 0 /\ nexp[h] = 0) =>
                   LET s1 == cancel(Cur, h, FALSE)
                       s2 == cancel(s1, h, FALSE)
                   IN  /\ s1.exc = "none"
                       /\ s1.cb = <<>>
                       /\ is_active(s1, h)
                       /\ Applied(s1, e, k) = Applied(Cur, e, k) - 1
                       /\ s2.exc = "none"
                       /\ Applied(s2, e, k) = Applied(Cur, e, k) - 2
                       /\ ListOf(h) = <<h, h>> =>
                              /\ ~is_active(s2, h)
                              /\ s2.cb = << <<"off", e, handlers[h].target>> >>

\* a handler was activated twice and cancelled twice: the effect is off
C23_Witness ==
    \E h \in HandlerIds :
        /\ nact[h] = 2 /\ nrev[h] = 2 /\ nexp[h] = 0
        /\ ~is_active(Cur, h)
        /\ LastCallOf(h) = "off"

\* C24: a handler's _delay is not None only while a Delay of the handler is
\* scheduled, neither fired nor cancelled: once the auto-expiry callback has
\* fired, as after cancel(), the reference is None.
C24_DelayClearedAfterFiring ==
    \A h \in HandlerIds :
        _delay[h] # None =>
            /\ _delay[h] \in PendingDelays
            /\ delays[_delay[h]].handler = h

\* C25: every scheduled Delay is the one its handler's _delay refers to, so
\* a handler has at most one Delay scheduled and cancel() leaves none
\* scheduled for it, also when the handler is activated with a duration
\* more than once.
C25_OnePendingPerHandler ==
    /\ \A d \in PendingDelays : _delay[delays[d].handler] = d
    /\ \A h \in HandlerIds : Cardinality(PendingOf(h)) <= 1
    /\ \A h \in HandlerIds :
           LET s == cancel(Cur, h, FALSE)
           IN  s.exc = "none" =>
                   \A d \in DOMAIN s.dl :
                       s.dl[d].handler = h => s.dl[d].state # "pending"

\* the outcome s of a query when s0 held: no stored state differs and no
\* target function was called
PureQuery(s0, s) ==
    /\ s.cb = <<>>
    /\ s.exc = "none"
    /\ Leases(s) = Leases(s0)
    /\ s.eh = s0.eh
    /\ s.hs = s0.hs /\ s.hd = s0.hd /\ s.dl = s0.dl
    /\ s.mt = s0.mt /\ s.ig = s0.ig

\* C26: is_active_for(target) and EffectHandler.is_active() are pure
\* queries: a call, also for a target whose key was never seen before,
\* changes no counter and no stored per-key state and calls neither on_f
\* nor off_f.
C26_QueriesArePure ==
    /\ \A e \in QueryEffects, t \in Targets :
           PureQuery(Cur, is_active_for_lookup(Cur, e, t))
    /\ \A h \in HandlerIds : PureQuery(Cur, is_active_lookup(Cur, h))

\* C27: once a listener is added to an event by EventManager.on(), every
\* later fire of the event through the manager calls it: no later
\* add_game_event_conversion, add_simple_game_event_conversion or
\* create_event for the name removes the listeners it has.
C27_ListenersKept ==
    \A r \in listening :
        LET m == Event_fire(Mgr, r[1], <<>>, <<>>)
        IN  \E i \in 1..Len(m.out) :
                /\ m.out[i].listener = r[3]
                /\ m.out[i].named = r[2]
                /\ m.out[i].event = r[1]

\* the conversions whose userid field is in the game event and is a
\* player's, in the order they were added
Resolvable(conversions, variables) ==
    SelectSeq(conversions,
              LAMBDA c : /\ c.userid_key \in DOMAIN variables
                         /\ variables[c.userid_key] \in Userids)

\* the listener calls of the Event.fire calls fs, in order
RECURSIVE NotifiedBy(_)
NotifiedBy(fs) ==
    IF fs = <<>> THEN <<>>
    ELSE NotifiedBy(SubSeq(fs, 1, Len(fs) - 1))
         \o Notify(fs[Len(fs)].event, _events[fs[Len(fs)].event].listeners,
                   FALSE, fs[Len(fs)].kwargs)
         \o Notify(fs[Len(fs)].event, _events[fs[Len(fs)].event].named_listeners,
                   TRUE, fs[Len(fs)].kwargs)

\* m is the outcome of _on_game_event for the game event name(variables)
ConvertedOnce(m, name, variables) ==
    LET conversions == Lookup(game_event_conversions, name)
        expected == Resolvable(conversions, variables)
    IN  /\ m.exc = "none"
        /\ Len(m.fires) = Len(expected)
        /\ \A i \in 1..Len(m.fires) :
               LET c == expected[i]
                   kwargs == m.fires[i].kwargs
               IN  /\ m.fires[i].event = c.event_name
                   /\ kwargs["player"] = from_userid(variables[c.userid_key])
                   /\ \A j \in 1..Len(expected) :
                          kwargs[expected[j].player_key] =
                              from_userid(variables[expected[j].userid_key])
                   /\ \A j \in 1..Len(conversions) :
                          conversions[j].userid_key \in DOMAIN kwargs
                              => kwargs[conversions[j].userid_key] \notin FieldValues
        /\ m.out = NotifiedBy(m.fires)

\* C28: when a game event arrives in _on_game_event, every conversion
\* added for it fires its derived event exactly once, in the order the
\* conversions were added, if and only if the game event has the
\* conversion's userid field and the userid is a player's; the listeners
\* get player objects in place of the userids.
C28_ConversionsFireOnce ==
    \A n \in EventSources : \A variables \in Variables(n) :
        n \in registered => ConvertedOnce(_on_game_event(Mgr, n, variables), n, variables)

\* C29: shift_property with a positive integer duration adds the shift at
\* once and takes it back exactly once when its Delay fires, the revert
\* scheduling no further Delay; so once every Delay of a property's shifts
\* has fired the property is what it would be without those shifts; and
\* with no positive integer duration no revert is scheduled.
C29_ShiftReverts ==
    /\ \A prop_name \in Props, shift \in Shifts, duration \in ShiftDurations :
           LET q == shift_property(Shifting, prop_name, shift, duration)
           IN  /\ q.pr = [props EXCEPT ![prop_name] = @ + shift]
               /\ IF duration # None /\ duration > 0
                      THEN Cardinality(DOMAIN q.sd) = Cardinality(DOMAIN shift_delays) + 1
                  ELSE q.sd = shift_delays
    /\ \A d \in PendingShifts : \A star_args \in BOOLEAN :
           LET q == ShiftDelay_fire(Shifting, d, star_args)
           IN  /\ q.exc = "none"
               /\ q.pr = [props EXCEPT ![shift_delays[d].third] =
                                           @ + shift_delays[d].fourth]
               /\ {x \in DOMAIN q.sd : q.sd[x].state = "pending"} = PendingShifts \ {d}
    /\ PendingShifts = {} =>
           \A prop_name \in Props : props[prop_name] = BaseValue + permanent[prop_name]

====
